---- MODULE Spec2Model ----
(***************************************************************************)
(* Huawei Cloud OBS service of OpenDAL: ObsBuilder (configuration and      *)
(* build), ObsBackend (the Accessor operations) and ObsWriter.             *)
(*                                                                         *)
(* Strings are sequences of tokens (a token stands for a run of            *)
(* characters with no separator inside it: "obs", ".", "://", "/").        *)
(* Option<T> is a sequence of length at most one: None == <<>>,            *)
(* Some(x) == <<x>>.  Bytes are sequences of numbers.                      *)
(***************************************************************************)
EXTENDS Integers, Sequences, FiniteSets, TLC

\* Bounds of the model.
MaxWriters == 2
MaxByte == 2

None == <<>>
Some(x) == <<x>>
IsSome(o) == Len(o) = 1
Unwrap(o) == o[1]

----------------------------------------------------------------------------
\* String helpers (std::str).

starts_with(s, p) ==
    /\ Len(s) >= Len(p)
    /\ SubSeq(s, 1, Len(p)) = p

ends_with(s, p) ==
    /\ Len(s) >= Len(p)
    /\ SubSeq(s, Len(s) - Len(p) + 1, Len(s)) = p

RECURSIVE trim_end_matches(_, _)
trim_end_matches(s, c) ==
    IF Len(s) > 0 /\ s[Len(s)] = c
    THEN trim_end_matches(SubSeq(s, 1, Len(s) - 1), c)
    ELSE s

\* Index of the first token of s that is in set cs, Len(s) + 1 when none is.
RECURSIVE find_first(_, _, _)
find_first(s, cs, i) ==
    IF i > Len(s) THEN Len(s) + 1
    ELSE IF s[i] \in cs THEN i
    ELSE find_first(s, cs, i + 1)

----------------------------------------------------------------------------
\* http::Uri as used by ObsBuilder::build: parse, scheme_str, host.

SchemeTokens == {"http", "https"}
\* A token holding a character no URI may contain (a space).
InvalidTokens == {" "}

UriErr == [ok |-> FALSE, scheme |-> None, authority |-> <<>>, path |-> <<>>]

HasInvalid(s) == \E i \in 1..Len(s) : s[i] \in InvalidTokens

\* endpoint.parse::<Uri>()
ParseUri(s) ==
    IF s = <<>> THEN UriErr
    ELSE IF HasInvalid(s) THEN UriErr
    ELSE IF s[1] = "/" THEN
        [ok |-> TRUE, scheme |-> None, authority |-> <<>>, path |-> s]
    ELSE
        LET hasScheme == Len(s) >= 2 /\ s[1] \in SchemeTokens /\ s[2] = "://"
            rest == IF hasScheme THEN SubSeq(s, 3, Len(s)) ELSE s
            authEnd == find_first(rest, {"/"}, 1) - 1
            auth == SubSeq(rest, 1, authEnd)
            path == SubSeq(rest, authEnd + 1, Len(rest))
        IN  IF ~hasScheme
            THEN IF authEnd # Len(rest) THEN UriErr
                 ELSE [ok |-> TRUE, scheme |-> None, authority |-> auth,
                       path |-> <<>>]
            ELSE IF authEnd = 0 THEN UriErr
                 ELSE [ok |-> TRUE, scheme |-> Some(s[1]), authority |-> auth,
                       path |-> path]

\* uri.scheme_str()
scheme_str(uri) == uri.scheme

\* uri.host(): the authority without its port; None when there is no authority.
host(uri) ==
    IF uri.authority = <<>> THEN None
    ELSE Some(SubSeq(uri.authority, 1, find_first(uri.authority, {":"}, 1) - 1))

----------------------------------------------------------------------------
\* Inputs of the builder.

DefaultHost == <<"obs", ".", "cn-north-4", ".", "myhuaweicloud", ".", "com">>
CustomHost == <<"custom", ".", "obs", ".", "com">>

EndpointInputs ==
    { <<>>,
      <<"/">>,
      <<"https", "://">> \o DefaultHost,
      <<"http", "://">> \o DefaultHost \o <<"/">>,
      DefaultHost,
      DefaultHost \o <<"/", "x">>,
      <<"https", "://">> \o CustomHost,
      <<"http", "://">> \o CustomHost \o <<":", "8080">>,
      CustomHost,
      <<"https", "://", "custom", " ", "obs">>,
      <<"/", "x">> }

BucketInputs == { <<>>, <<"test">> }

\* The transport an injected HttpClient talks to: a scripted one answers
\* anything, a store answers as a consistent object store.
ClientKinds == {"scripted", "store"}

----------------------------------------------------------------------------
VARIABLES
    builder,      \* ObsBuilder: endpoint, bucket, http_client (each an Option)
    backend,      \* Option<ObsBackend>: the ObsCore the build produced
    store,        \* the objects the store transport holds: path -> Option<Bytes>
    writers,      \* the live ObsWriters: path -> number of Writers bound to it
    lastWritten,  \* history, kept for the store transport: path -> bytes of the
                  \* last successful Writer.write, None once anything else may
                  \* have touched the path
    last          \* the last call made: its inputs, its requests, its result

vars == <<builder, backend, store, writers, lastWritten, last>>

----------------------------------------------------------------------------
\* ObsBuilder setters.

\* ObsBuilder::endpoint
endpoint_set(self, endpoint) ==
    IF endpoint # <<>>
    THEN [self EXCEPT !.endpoint = Some(trim_end_matches(endpoint, "/"))]
    ELSE self

\* ObsBuilder::bucket
bucket_set(self, bucket) ==
    IF bucket # <<>>
    THEN [self EXCEPT !.bucket = Some(bucket)]
    ELSE self

\* ObsBuilder::http_client
http_client_set(self, client) == [self EXCEPT !.http_client = Some(client)]

----------------------------------------------------------------------------
\* ObsBuilder::build, step by step.

\* let bucket = match &self.bucket { ... }?
build_bucket(self) ==
    IF IsSome(self.bucket)
    THEN [ok |-> TRUE, bucket |-> Unwrap(self.bucket)]
    ELSE [ok |-> FALSE, bucket |-> <<>>]

build_uri_unchecked(self) ==
    IF IsSome(self.endpoint)
    THEN [ParseUri(Unwrap(self.endpoint)) EXCEPT !.ok = TRUE]
    ELSE [UriErr EXCEPT !.ok = TRUE]

\* let uri = match &self.endpoint { ... }?
build_uri(self) ==
    IF IsSome(self.endpoint)
    THEN ParseUri(Unwrap(self.endpoint))
    ELSE UriErr

build_scheme_http(uri) ==
    IF IsSome(scheme_str(uri)) THEN Unwrap(scheme_str(uri)) ELSE "http"

\* let scheme = match uri.scheme_str() { ... }
build_scheme(uri) ==
    IF IsSome(scheme_str(uri)) THEN Unwrap(scheme_str(uri)) ELSE "https"

\* host.starts_with("obs.") && host.ends_with(".myhuaweicloud.com")
is_default_host(h) ==
    /\ starts_with(h, <<"obs", ".">>)
    /\ ends_with(h, <<".", "myhuaweicloud", ".", "com">>)

\* let (endpoint, is_obs_default) = { ... }
build_endpoint(bucket, uri) ==
    LET h == IF IsSome(host(uri)) THEN Unwrap(host(uri)) ELSE <<>>
    IN  IF is_default_host(h)
        THEN [endpoint |-> bucket \o <<".">> \o h, is_obs_default |-> TRUE]
        ELSE [endpoint |-> h, is_obs_default |-> FALSE]

build_signer_bucket(is_obs_default, bucket, endpoint) == bucket

\* HuaweicloudObsSigner::new(if is_obs_default { &bucket } else { &endpoint }):
\* the canonical resource handed to the signer.
build_signer(is_obs_default, bucket, endpoint) ==
    IF is_obs_default THEN bucket ELSE endpoint

BuildErr(self, kind) == [res |-> kind, backend |-> None, builder |-> self]

\* ObsBuilder::build.  newOk: whether HttpClient::new() succeeds when no client
\* was injected (the default client talks to a server that answers anything).
build(self, newOk) ==
    LET b == build_bucket(self)
        uri == build_uri(self)
        scheme == build_scheme(uri)
        e == build_endpoint(b.bucket, uri)
        injected == IsSome(self.http_client)
    IN  IF ~b.ok THEN BuildErr(self, "ConfigInvalid")
        ELSE IF ~uri.ok THEN BuildErr(self, "ConfigInvalid")
        ELSE IF ~injected /\ ~newOk THEN BuildErr(self, "Unexpected")
        ELSE [res |-> "Ok",
              backend |-> Some(
                  [bucket |-> b.bucket,
                   endpoint |-> <<scheme, "://">> \o e.endpoint,
                   signer |-> build_signer(e.is_obs_default, b.bucket, e.endpoint),
                   client |-> IF injected THEN Unwrap(self.http_client)
                              ELSE "scripted"]),
              builder |-> [self EXCEPT !.http_client = None]]

----------------------------------------------------------------------------
\* Paths, bodies and the transport.

RootPath == <<"/">>
FilePath == <<"a">>
DirPath == <<"d", "/">>
ObjPaths == {FilePath, DirPath}
Paths == {RootPath} \cup ObjPaths

Bodies == { <<b>> : b \in 1..MaxByte }
\* An XML document in a response (an error description, a copy result): not
\* object data.
XmlBody == <<0>>

Statuses == {200, 201, 202, 204, 206, 404, 412, 500}

NoResp == [status |-> 0, clen |-> 0, body |-> <<>>]
Resp(status, body) == [status |-> status, clen |-> Len(body), body |-> body]

\* ObsCore::obs_put_object_request(path, size, content_type, if_match, body)
obs_put_object_request(path, size, body) ==
    [method |-> "PUT", path |-> path, from |-> <<>>, clen |-> size,
     body |-> body, full |-> TRUE, if_match |-> FALSE]

\* ObsCore::obs_get_object(path, range, if_match): its request
obs_get_object_request(path, full, if_match) ==
    [method |-> "GET", path |-> path, from |-> <<>>, clen |-> -1,
     body |-> <<>>, full |-> full, if_match |-> if_match]

\* ObsCore::obs_get_head_object(path, if_match): its request
obs_get_head_object_request(path, if_match) ==
    [method |-> "HEAD", path |-> path, from |-> <<>>, clen |-> -1,
     body |-> <<>>, full |-> TRUE, if_match |-> if_match]

\* ObsCore::obs_delete_object(path): its request
obs_delete_object_request(path) ==
    [method |-> "DELETE", path |-> path, from |-> <<>>, clen |-> -1,
     body |-> <<>>, full |-> TRUE, if_match |-> FALSE]

\* ObsCore::obs_copy_object(from, to): its request
obs_copy_object_request(from, to) ==
    [method |-> "COPY", path |-> to, from |-> from, clen |-> 0,
     body |-> <<>>, full |-> TRUE, if_match |-> FALSE]

\* What a scripted transport may answer: any status; a HEAD response and a 204
\* carry no body, an error carries an error document.
ScriptedBodies(method, status) ==
    IF method = "HEAD" \/ status = 204 THEN { <<>> }
    ELSE IF status \in {200, 201, 202, 206}
         THEN IF method = "GET" THEN Bodies \cup { <<>> } ELSE { <<>>, XmlBody }
         ELSE { XmlBody }

ScriptedResponses(req) ==
    UNION { { [status |-> s, clen |-> n, body |-> b] :
                b \in ScriptedBodies(req.method, s),
                n \in IF req.method = "HEAD" /\ s = 200 THEN 0..1 ELSE {0} }
            : s \in Statuses }

Stored(st, path) == IF path \in DOMAIN st THEN st[path] ELSE None

Put(st, path, body) ==
    IF path \in DOMAIN st THEN [st EXCEPT ![path] = Some(body)] ELSE st

\* What a consistent object store answers, and the store afterwards.
StoreResponses(req, st) ==
    LET cur == Stored(st, req.path)
        keep(r) == [resp |-> r, store |-> st]
        failure == { keep(Resp(500, XmlBody)) }
                   \cup IF req.if_match THEN { keep(Resp(412, XmlBody)) } ELSE {}
    IN  failure \cup
        CASE req.method = "PUT" ->
               { [resp |-> Resp(200, <<>>), store |-> Put(st, req.path, req.body)] }
          [] req.method = "GET" ->
               IF ~IsSome(cur) THEN { keep(Resp(404, XmlBody)) }
               ELSE IF req.full THEN { keep(Resp(200, Unwrap(cur))) }
               ELSE IF Unwrap(cur) = <<>> THEN { keep(Resp(416, XmlBody)) }
               ELSE { keep(Resp(206, SubSeq(Unwrap(cur), 1, 1))) }
          [] req.method = "HEAD" ->
               IF ~IsSome(cur) THEN { keep(Resp(404, <<>>)) }
               ELSE { keep([status |-> 200, clen |-> Len(Unwrap(cur)),
                            body |-> <<>>]) }
          [] req.method = "DELETE" ->
               IF ~IsSome(cur) THEN { keep(Resp(204, <<>>)), keep(Resp(404, XmlBody)) }
               ELSE { [resp |-> Resp(204, <<>>),
                       store |-> [st EXCEPT ![req.path] = None]] }
          [] req.method = "COPY" ->
               IF ~IsSome(Stored(st, req.from)) THEN { keep(Resp(404, XmlBody)) }
               ELSE { [resp |-> Resp(200, XmlBody),
                       store |-> Put(st, req.path, Unwrap(Stored(st, req.from)))] }

\* ObsCore::sign followed by ObsCore::send: signing fails (nothing is sent), the
\* transport fails (no response), or a response arrives.
Exchange(core, req, st) ==
    { [stage |-> "sign_failed", resp |-> NoResp, store |-> st],
      [stage |-> "send_failed", resp |-> NoResp, store |-> st] }
    \cup
    { [stage |-> "resp", resp |-> x.resp, store |-> x.store] :
        x \in IF core.client = "store"
              THEN StoreResponses(req, st)
              ELSE { [resp |-> r, store |-> st] : r \in ScriptedResponses(req) } }

\* Whether draining the response body of o can fail mid-stream: only a success
\* response is drained by consume().
DrainOutcomes(o) ==
    IF o.stage = "resp" /\ o.resp.status \in {200, 201} THEN BOOLEAN ELSE {TRUE}

\* parse_error(resp): the error kind a failure status maps to.
parse_error(resp) ==
    CASE resp.status = 404 -> "NotFound"
      [] resp.status = 412 -> "PreconditionFailed"
      [] OTHER -> "Unexpected"

\* parse_into_metadata(path, headers)
parse_into_metadata(path, resp) ==
    [mode |-> IF ends_with(path, <<"/">>) THEN "DIR" ELSE "FILE",
     size |-> resp.clen]

----------------------------------------------------------------------------
\* The record of a call: its inputs (op, arg, flag, bs), the requests it issued
\* (nreq, and sent: the content-length of the request, -1 when it has none),
\* the status and content-length header it received (0: none), its result
\* (res, mode, size) and rest:
\* the part of the response body nobody has read when the call returns (for a
\* successful read, the stream handed to the caller).

Call(op, arg, flag, bs) ==
    [op |-> op, arg |-> arg, flag |-> flag, bs |-> bs, nreq |-> 0, sent |-> -1,
     status |-> 0, clen |-> 0, res |-> "none", mode |-> "", size |-> 0, rest |-> <<>>]

Returned(c, res) == [c EXCEPT !.res = res]

\* A call after sign and send: the `?` after each of them returns the error.
Sent(c, req, o) ==
    CASE o.stage = "sign_failed" -> [c EXCEPT !.res = "Unexpected"]
      [] o.stage = "send_failed" ->
            [c EXCEPT !.nreq = 1, !.sent = req.clen, !.res = "TransportFailure"]
      [] OTHER ->
            [c EXCEPT !.nreq = 1, !.sent = req.clen, !.status = o.resp.status,
                      !.clen = o.resp.clen, !.rest = o.resp.body]

\* resp.into_body().consume().await?  then Ok
Consumed(c, drainOk) ==
    IF drainOk THEN [c EXCEPT !.res = "Ok", !.rest = <<>>]
    ELSE [c EXCEPT !.res = "TransportFailure"]

\* Err(parse_error(resp).await?): the error body is read to build the error.
Failed(c, o) == [c EXCEPT !.res = parse_error(o.resp), !.rest = <<>>]

----------------------------------------------------------------------------
\* ObsBackend: the status each operation takes for success.

\* create_dir: StatusCode::CREATED | StatusCode::OK
create_dir_success(status) == status \in {201, 200}

\* read: StatusCode::OK | StatusCode::PARTIAL_CONTENT
read_success(status) == status \in {200, 206}

copy_success_created(status) == status \in {200, 201}

\* copy: StatusCode::OK
copy_success(status) == status = 200

delete_success_strict(status) == status \in {204, 202}

\* delete: StatusCode::NO_CONTENT | StatusCode::ACCEPTED | StatusCode::NOT_FOUND
delete_success(status) == status \in {204, 202, 404}

stat_is_root_never(path) == FALSE

\* stat: if path == "/"
stat_is_root(path) == path = <<"/">>

stat_not_found_is_dir_never(status, path) == FALSE

\* stat: StatusCode::NOT_FOUND if path.ends_with('/')
stat_not_found_is_dir(status, path) == status = 404 /\ ends_with(path, <<"/">>)

write_unsupported_never(append) == FALSE

\* write: if args.append()
write_unsupported(append) == append

\* ObsWriter::write: StatusCode::CREATED | StatusCode::OK
writer_write_success(status) == status \in {201, 200}

----------------------------------------------------------------------------
\* ObsBackend and ObsWriter: the result of each operation.

\* ObsBackend::create_dir
create_dir(path, req, o, drainOk) ==
    LET c == Sent(Call("create_dir", path, FALSE, <<>>), req, o)
    IN  IF o.stage # "resp" THEN c
        ELSE IF create_dir_success(o.resp.status) THEN Consumed(c, drainOk)
        ELSE Failed(c, o)

\* ObsBackend::read
read(path, full, req, o) ==
    LET c == Sent(Call("read", path, full, <<>>), req, o)
        meta == parse_into_metadata(path, o.resp)
    IN  IF o.stage # "resp" THEN c
        ELSE IF read_success(o.resp.status)
             THEN [c EXCEPT !.res = "Ok", !.mode = meta.mode, !.size = meta.size]
        ELSE Failed(c, o)

\* ObsBackend::copy
copy(from, to, req, o, drainOk) ==
    LET c == Sent(Call("copy", to, FALSE, <<>>), req, o)
    IN  IF o.stage # "resp" THEN c
        ELSE IF copy_success(o.resp.status) THEN Consumed(c, drainOk)
        ELSE Failed(c, o)

\* ObsBackend::stat, the early return for the root
stat_root(path, if_match) ==
    [Call("stat", path, if_match, <<>>) EXCEPT !.res = "Ok", !.mode = "DIR"]

\* ObsBackend::stat, after the HEAD request
stat(path, if_match, req, o) ==
    LET c == Sent(Call("stat", path, if_match, <<>>), req, o)
        meta == parse_into_metadata(path, o.resp)
    IN  IF o.stage # "resp" THEN c
        ELSE IF o.resp.status = 200
             THEN [c EXCEPT !.res = "Ok", !.mode = meta.mode, !.size = meta.size]
        ELSE IF stat_not_found_is_dir(o.resp.status, path)
             THEN [c EXCEPT !.res = "Ok", !.mode = "DIR"]
        ELSE Failed(c, o)

\* ObsBackend::delete
delete(path, req, o) ==
    LET c == Sent(Call("delete", path, FALSE, <<>>), req, o)
    IN  IF o.stage # "resp" THEN c
        ELSE IF delete_success(o.resp.status) THEN Returned(c, "Ok")
        ELSE Failed(c, o)

writer_put_args_empty(path, bs) == [path |-> path, size |-> 0, body |-> <<>>]

\* ObsWriter::write: the arguments of obs_put_object_request
writer_put_args(path, bs) == [path |-> path, size |-> Len(bs), body |-> bs]

\* ObsWriter::write
writer_write(path, bs, req, o, drainOk) ==
    LET c == Sent(Call("writer_write", path, FALSE, bs), req, o)
    IN  IF o.stage # "resp" THEN c
        ELSE IF writer_write_success(o.resp.status) THEN Consumed(c, drainOk)
        ELSE Failed(c, o)

\* ObsWriter::append
writer_append(path, bs) == Returned(Call("writer_append", path, TRUE, bs), "Unsupported")

\* ObsWriter::abort
writer_abort(path) == Returned(Call("writer_abort", path, FALSE, <<>>), "Ok")

\* ObsWriter::close
writer_close(path) == Returned(Call("writer_close", path, FALSE, <<>>), "Ok")

----------------------------------------------------------------------------
\* The state machine.

Init ==
    /\ builder = [endpoint |-> None, bucket |-> None, http_client |-> None]
    /\ backend = None
    /\ store = [p \in ObjPaths |-> None]
    /\ writers = [p \in ObjPaths |-> 0]
    /\ lastWritten = [p \in ObjPaths |-> None]
    /\ last = Call("none", <<>>, FALSE, <<>>)

Touched(path) == [lastWritten EXCEPT ![path] = None]

\* The builder is configured and built until a build succeeds; the backend it
\* produced is used from then on.
SetEndpoint(e) ==
    /\ backend = None
    /\ builder' = endpoint_set(builder, e)
    /\ last' = Returned(Call("endpoint", e, FALSE, <<>>), "Ok")
    /\ UNCHANGED <<backend, store, writers, lastWritten>>

SetBucket(b) ==
    /\ backend = None
    /\ builder' = bucket_set(builder, b)
    /\ last' = Returned(Call("bucket", b, FALSE, <<>>), "Ok")
    /\ UNCHANGED <<backend, store, writers, lastWritten>>

SetHttpClient(c) ==
    /\ backend = None
    /\ builder' = http_client_set(builder, c)
    /\ last' = Returned(Call("http_client", <<c>>, FALSE, <<>>), "Ok")
    /\ UNCHANGED <<backend, store, writers, lastWritten>>

\* last.flag records whether a transport handle was injected.
Build ==
    /\ backend = None
    /\ \E newOk \in BOOLEAN :
         LET r == build(builder, newOk)
         IN  /\ builder' = r.builder
             /\ backend' = r.backend
             /\ last' = Returned(
                    Call("build", <<>>, IsSome(builder.http_client), <<>>), r.res)
    /\ UNCHANGED <<store, writers, lastWritten>>

CreateDir(path) ==
    /\ IsSome(backend)
    /\ LET req == obs_put_object_request(path, 0, <<>>)
       IN  \E o \in Exchange(Unwrap(backend), req, store) : \E drainOk \in DrainOutcomes(o) :
             /\ last' = create_dir(path, req, o, drainOk)
             /\ store' = o.store
    /\ lastWritten' = Touched(path)
    /\ UNCHANGED <<builder, backend, writers>>

Read(path, full) ==
    /\ IsSome(backend)
    /\ LET req == obs_get_object_request(path, full, FALSE)
       IN  \E o \in Exchange(Unwrap(backend), req, store) :
             /\ last' = read(path, full, req, o)
             /\ store' = o.store
    /\ UNCHANGED <<builder, backend, writers, lastWritten>>

\* The number of live Writers, bounded by MaxWriters.
LiveWriters == writers[FilePath] + writers[DirPath]

Write(path, append) ==
    /\ IsSome(backend)
    /\ IF write_unsupported(append)
       THEN /\ last' = Returned(Call("write", path, append, <<>>), "Unsupported")
            /\ writers' = writers
       ELSE /\ LiveWriters < MaxWriters
            /\ writers' = [writers EXCEPT ![path] = @ + 1]
            /\ last' = Returned(Call("write", path, append, <<>>), "Ok")
    /\ UNCHANGED <<builder, backend, store, lastWritten>>

Copy(from, to) ==
    /\ IsSome(backend)
    /\ LET req == obs_copy_object_request(from, to)
       IN  \E o \in Exchange(Unwrap(backend), req, store) : \E drainOk \in DrainOutcomes(o) :
             /\ last' = copy(from, to, req, o, drainOk)
             /\ store' = o.store
    /\ lastWritten' = Touched(to)
    /\ UNCHANGED <<builder, backend, writers>>

Stat(path, if_match) ==
    /\ IsSome(backend)
    /\ IF stat_is_root(path)
       THEN /\ last' = stat_root(path, if_match)
            /\ store' = store
       ELSE LET req == obs_get_head_object_request(path, if_match)
            IN  \E o \in Exchange(Unwrap(backend), req, store) :
                  /\ last' = stat(path, if_match, req, o)
                  /\ store' = o.store
    /\ UNCHANGED <<builder, backend, writers, lastWritten>>

Delete(path) ==
    /\ IsSome(backend)
    /\ LET req == obs_delete_object_request(path)
       IN  \E o \in Exchange(Unwrap(backend), req, store) :
             /\ last' = delete(path, req, o)
             /\ store' = o.store
    /\ lastWritten' = Touched(path)
    /\ UNCHANGED <<builder, backend, writers>>

WriterWrite(path, bs) ==
    /\ IsSome(backend)
    /\ writers[path] > 0
    /\ LET a == writer_put_args(path, bs)
           req == obs_put_object_request(a.path, a.size, a.body)
       IN  \E o \in Exchange(Unwrap(backend), req, store) : \E drainOk \in DrainOutcomes(o) :
             /\ last' = writer_write(path, bs, req, o, drainOk)
             /\ store' = o.store
             /\ lastWritten' = IF last'.res = "Ok" /\ Unwrap(backend).client = "store"
                                THEN [lastWritten EXCEPT ![path] = Some(bs)]
                                ELSE Touched(path)
    /\ UNCHANGED <<builder, backend, writers>>

WriterAppend(path, bs) ==
    /\ writers[path] > 0
    /\ last' = writer_append(path, bs)
    /\ UNCHANGED <<builder, backend, store, writers, lastWritten>>

WriterAbort(path) ==
    /\ writers[path] > 0
    /\ last' = writer_abort(path)
    /\ UNCHANGED <<builder, backend, store, writers, lastWritten>>

WriterClose(path) ==
    /\ writers[path] > 0
    /\ last' = writer_close(path)
    /\ UNCHANGED <<builder, backend, store, writers, lastWritten>>

\* ObsBuilder: configuration and build.
NextBuilder ==
    \/ \E e \in EndpointInputs : SetEndpoint(e)
    \/ \E b \in BucketInputs : SetBucket(b)
    \/ \E c \in ClientKinds : SetHttpClient(c)
    \/ Build

SpecBuilder == Init /\ [][NextBuilder]_vars

\* ObsBackend and ObsWriter, from the state a successful build leaves.
InitBackend ==
    /\ \E c \in ClientKinds :
         LET r == build([endpoint |-> Some(<<"https", "://">> \o DefaultHost),
                         bucket |-> Some(<<"test">>),
                         http_client |-> Some(c)], TRUE)
         IN  /\ builder = r.builder
             /\ backend = r.backend
             /\ last = Returned(Call("build", <<>>, TRUE, <<>>), r.res)
    /\ store = [p \in ObjPaths |-> None]
    /\ writers = [p \in ObjPaths |-> 0]
    /\ lastWritten = [p \in ObjPaths |-> None]

NextBackend ==
    \/ \E p \in ObjPaths : CreateDir(p)
    \/ \E p \in ObjPaths, full \in BOOLEAN : Read(p, full)
    \/ \E p \in ObjPaths, append \in BOOLEAN : Write(p, append)
    \/ \E from \in ObjPaths : \E to \in ObjPaths \ {from} : Copy(from, to)
    \/ \E p \in Paths, m \in BOOLEAN : Stat(p, m)
    \/ \E p \in ObjPaths : Delete(p)
    \/ \E p \in ObjPaths, bs \in Bodies : WriterWrite(p, bs)
    \/ \E p \in ObjPaths, bs \in Bodies : WriterAppend(p, bs)
    \/ \E p \in ObjPaths : WriterAbort(p)
    \/ \E p \in ObjPaths : WriterClose(p)

SpecBackend == InitBackend /\ [][NextBackend]_vars

\* The whole program: a builder configured and built, then the backend used.
Next == NextBuilder \/ NextBackend

Spec == Init /\ [][Next]_vars

----------------------------------------------------------------------------
\* Properties of ObsBuilder::build (SpecBuilder).

Core == Unwrap(backend)

\* The scheme, host and bucket of the configuration a build used, read from the
\* builder (build leaves endpoint and bucket in place).
ConfUri == ParseUri(Unwrap(builder.endpoint))
ConfScheme == IF ConfUri.scheme = None THEN "https" ELSE Unwrap(ConfUri.scheme)
ConfHost == IF IsSome(host(ConfUri)) THEN Unwrap(host(ConfUri)) ELSE <<>>
ConfBucket == Unwrap(builder.bucket)
ConfIsDefault ==
    /\ starts_with(ConfHost, <<"obs", ".">>)
    /\ ends_with(ConfHost, <<".", "myhuaweicloud", ".", "com">>)

BadConfig ==
    \/ builder.bucket = None
    \/ builder.endpoint = None
    \/ ~ConfUri.ok

BuildOutcome ==
    last.op = "build" =>
        /\ BadConfig => (last.res = "ConfigInvalid" /\ backend = None)
        /\ (~BadConfig /\ last.flag) => (last.res = "Ok" /\ IsSome(backend))
        /\ last.res # "Ok" => backend = None

EmptySetterKeeps ==
    (last'.op \in {"bucket", "endpoint"} /\ last'.arg = <<>>) => builder' = builder

\* C1: build fails with ConfigInvalid and produces no backend when the bucket is
\* absent, when the endpoint is absent, and when the endpoint does not parse as
\* a URI (setting either to the empty string leaves it as it was); every other
\* configuration with an injected transport handle builds a backend.
C1_BuildConfigInvalid == [](BuildOutcome) /\ [][EmptySetterKeeps]_vars

C1_Witness ==
    /\ last.op = "build"
    /\ last.res = "ConfigInvalid"
    /\ IsSome(builder.bucket)
    /\ builder.endpoint = Some(DefaultHost \o <<"/", "x">>)
    /\ IsSome(builder.http_client)

\* C2: with bucket B and an endpoint host H that starts with "obs." and ends
\* with ".myhuaweicloud.com", the resolved endpoint is "<scheme>://B.H" (scheme
\* as written, "https" when none is written) and the signer's canonical
\* resource is B.
C2_DefaultStyleEndpoint ==
    (IsSome(backend) /\ ConfIsDefault) =>
        /\ Core.endpoint = <<ConfScheme, "://">> \o ConfBucket \o <<".">> \o ConfHost
        /\ Core.signer = ConfBucket
        /\ Core.bucket = ConfBucket

C2_Witness ==
    /\ IsSome(backend)
    /\ builder.endpoint = Some(DefaultHost)
    /\ Core.endpoint = <<"https", "://", "test", ".">> \o DefaultHost

\* C3 as stated: for a host outside the default pattern the resolved endpoint
\* stored in the runtime context equals the host unchanged, and the signer's
\* canonical resource is that host.
C3_Original ==
    (IsSome(backend) /\ ~ConfIsDefault) =>
        /\ Core.endpoint = ConfHost
        /\ Core.signer = ConfHost

\* C3, amended: for a host that does not both start with "obs." and end with
\* ".myhuaweicloud.com", the resolved endpoint stored in the runtime context is
\* "<scheme>://<host>" with the host unchanged (no bucket prefix), and the
\* signer's canonical resource is the host, not the bucket name.
C3_CustomStyleEndpoint ==
    (IsSome(backend) /\ ~ConfIsDefault) =>
        /\ Core.endpoint = <<ConfScheme, "://">> \o ConfHost
        /\ Core.signer = ConfHost

C3_Witness ==
    /\ IsSome(backend)
    /\ builder.endpoint = Some(<<"http", "://">> \o CustomHost \o <<":", "8080">>)
    /\ Core.signer = CustomHost

----------------------------------------------------------------------------
\* Properties of ObsBackend and ObsWriter (SpecBackend).

IsError(res) == res \notin {"Ok", "none"}

\* C4: stat on "/" returns success with directory metadata and issues no
\* transport request, whatever the stat options and the transport.
C4_StatRootNoRequest ==
    (last.op = "stat" /\ last.arg = RootPath) =>
        /\ last.res = "Ok"
        /\ last.mode = "DIR"
        /\ last.nreq = 0
        /\ last.status = 0

C4_Witness ==
    /\ last.op = "stat"
    /\ last.arg = RootPath
    /\ last.flag
    /\ last.res = "Ok"
    /\ Core.client = "scripted"

C6_DeleteIdempotent ==
    (last.op = "delete" /\ last.status # 0) =>
        /\ last.status \in {204, 202, 404} => last.res = "Ok"
        /\ last.status \notin {204, 202, 404} => IsError(last.res)

\* delete of a path the store does not hold, answered 404.
C6_Witness ==
    /\ Core.client = "store"
    /\ last.op = "delete"
    /\ last.status = 404
    /\ last.res = "Ok"
    /\ store[last.arg] = None

AppendRejected ==
    /\ (last.op = "write" /\ last.flag) =>
           (last.res = "Unsupported" /\ last.nreq = 0)
    /\ last.op = "writer_append" =>
           (last.res = "Unsupported" /\ last.nreq = 0)

AppendCreatesNoWriter ==
    (last'.op = "write" /\ last'.flag) => (writers' = writers /\ store' = store)

\* C7: write with the append flag returns Unsupported, creates no Writer and
\* issues no request; Writer.append returns Unsupported for every input and
\* issues no request.
C7_AppendUnsupported == [](AppendRejected) /\ [][AppendCreatesNoWriter]_vars

C7_Witness ==
    /\ last.op = "write"
    /\ last.flag
    /\ last.res = "Unsupported"
    /\ writers[last.arg] > 0

WriteThenRead ==
    /\ (last.op = "read" /\ last.flag /\ last.res = "Ok"
            /\ IsSome(lastWritten[last.arg])) =>
           /\ last.rest = Unwrap(lastWritten[last.arg])
           /\ last.size = Len(Unwrap(lastWritten[last.arg]))
    /\ (last.op = "writer_write" /\ last.nreq = 1) => last.sent = Len(last.bs)
    /\ (last.op = "writer_write" /\ last.res = "Ok" /\ Core.client = "store") =>
           store[last.arg] = Some(last.bs)

CloseAbortKeepStore ==
    last'.op \in {"writer_close", "writer_abort"} => store' = store

\* C8: against the store, after successful Writer.write calls on a path a full
\* read of it returns the bytes of the last successful write and their length
\* as size; a write is one PUT of the whole body with content-length equal to
\* the byte count and replaces what was stored; close and abort leave the store
\* as it is.
C8_WriteReadRoundTrip == [](WriteThenRead) /\ [][CloseAbortKeepStore]_vars

\* A read after writes through two Writers on the path.
C8_Witness ==
    /\ last.op = "read"
    /\ last.flag
    /\ last.res = "Ok"
    /\ lastWritten[last.arg] = Some(<<2>>)
    /\ last.rest = <<2>>
    /\ writers[last.arg] = 2

\* C9: every operation other than read that received a response and returns
\* success has read the whole response body.
C9_SuccessBodyDrained ==
    (last.res = "Ok" /\ last.status # 0 /\ last.op # "read") => last.rest = <<>>

SingleRequestOps == {"create_dir", "writer_write", "read", "copy"}

SuccessStatuses(op) ==
    CASE op = "read" -> {200, 206}
      [] op = "copy" -> {200}
      [] OTHER -> {200, 201}

====
